---- MODULE Spec2Model ----
(***************************************************************************)
(* SurfCoach IA: the analysis requester and the upload flow around it.    *)
(*                                                                         *)
(* The repository holds several versions of one React application.  Each  *)
(* version is one value of `variant'; a behaviour of the model is one     *)
(* session of one version.  Two versions delegate the model call to the   *)
(* service module analyzeSurfVideo, of which four versions exist; `svc'   *)
(* names the one linked in.                                                *)
(*                                                                         *)
(* Texts are sequences of one-character strings, so that includes,        *)
(* toLowerCase, indexOf, lastIndexOf, substring and trim are computed as  *)
(* the JavaScript functions compute them.  Accented letters are written   *)
(* without their accent.  A response text is a sequence over the lexical  *)
(* alphabet RespChars (see JSONparse).                                     *)
(***************************************************************************)
EXTENDS Integers, Sequences, FiniteSets, TLC

\* ------------------------------------------------------------------ bounds
\* Uploads in one session.
MaxRuns == 2
\* Length of a response text, in lexical tokens.
MaxRespLen == 4
\* Number of phrases in the message of an error of the model API.
MaxErrWords == 2
\* Largest frameCount passed to extractFrames besides the defaults.
MaxFrameCount == 10
\* Longest video, in seconds.
MaxDuration == 11

\* The number of times the API key is replaced by another one in a session.
MaxKeyRotations == 1

\* ------------------------------------------------------- String.prototype
Upper ==
    <<"A","B","C","D","E","F","G","H","I","J","K","L","M",
      "N","O","P","Q","R","S","T","U","V","W","X","Y","Z">>
Lower ==
    <<"a","b","c","d","e","f","g","h","i","j","k","l","m",
      "n","o","p","q","r","s","t","u","v","w","x","y","z">>

lowerChar(c) ==
    IF \E i \in 1..26 : Upper[i] = c
    THEN Lower[CHOOSE i \in 1..26 : Upper[i] = c]
    ELSE c

toLowerCase(s) ==
    [i \in 1..Len(s) |-> lowerChar(s[i])]

\* s.includes(sub): case-sensitive substring search.
includes(s, sub) ==
    \E i \in 0..(Len(s) - Len(sub)) : SubSeq(s, i + 1, i + Len(sub)) = sub

\* s.indexOf(c), 0-based, -1 when c does not occur.
indexOf(s, c) ==
    IF \E i \in 1..Len(s) : s[i] = c
    THEN (CHOOSE i \in 1..Len(s) : s[i] = c /\ \A j \in 1..(i - 1) : s[j] # c) - 1
    ELSE -1

\* s.lastIndexOf(c), 0-based, -1 when c does not occur.
lastIndexOf(s, c) ==
    IF \E i \in 1..Len(s) : s[i] = c
    THEN (CHOOSE i \in 1..Len(s) : s[i] = c /\ \A j \in (i + 1)..Len(s) : s[j] # c) - 1
    ELSE -1

clamp(i, n) ==
    IF i < 0 THEN 0 ELSE IF i > n THEN n ELSE i

\* s.substring(a, b): both ends clamped to 0..length, swapped when a > b.
substring(s, a, b) ==
    LET ca == clamp(a, Len(s))
        cb == clamp(b, Len(s))
        lo == IF ca <= cb THEN ca ELSE cb
        hi == IF ca <= cb THEN cb ELSE ca
    IN  SubSeq(s, lo + 1, hi)

\* s.trim(): leading and trailing white space removed.
trim(s) ==
    IF \A i \in 1..Len(s) : s[i] = " "
    THEN << >>
    ELSE LET lo == CHOOSE i \in 1..Len(s) : s[i] # " " /\ \A j \in 1..(i - 1) : s[j] = " "
             hi == CHOOSE i \in 1..Len(s) : s[i] # " " /\ \A j \in (i + 1)..Len(s) : s[j] = " "
         IN  SubSeq(s, lo, hi)

\* ---------------------------------------------------------------- JSON.parse
\* Lexical alphabet of a response text:
\*   "{" "}"  the braces of a JSON object
\*   "m"      a well-formed member with a scalar value ("score":8.5,)
\*   "n"      a JSON value that is not an object (42, null, [], "text")
\*   "x"      a character of prose that is no JSON at all
\*   " "      white space
\* An object is "{" followed by members, nested objects (the value of a
\* member) and white space, closed by "}".  JSON.parse accepts exactly one
\* value surrounded by white space and throws a SyntaxError on anything
\* else, the empty text and `undefined' included.
RespChars == {"{", "}", "m", "n", "x", " "}

RECURSIVE objectEnd(_, _, _)
\* Index after the "}" closing the innermost object still open at
\* position i with `depth' objects open; 0 when the text is no object.
objectEnd(t, i, depth) ==
    IF i > Len(t) THEN 0
    ELSE IF t[i] = "{" THEN objectEnd(t, i + 1, depth + 1)
    ELSE IF t[i] = "}" THEN (IF depth = 1 THEN i + 1 ELSE objectEnd(t, i + 1, depth - 1))
    ELSE IF t[i] \in {"m", " "} THEN objectEnd(t, i + 1, depth)
    ELSE 0

isJSON(text) ==
    LET t == trim(text)
    IN  \/ t = <<"n">>
        \/ /\ Len(t) > 0
           /\ t[1] = "{"
           /\ objectEnd(t, 2, 1) = Len(t) + 1

\* The parsed value, written as its tokens without white space.
JSONparse(text) ==
    SelectSeq(text, LAMBDA c : c # " ")

\* -------------------------------------------------------------------- texts
\* Keywords the catch blocks search for.
kw_safety ==
    <<"s","a","f","e","t","y">>
kw_blocked ==
    <<"b","l","o","c","k","e","d">>
kw_candidate ==
    <<"c","a","n","d","i","d","a","t","e">>
kw_quota ==
    <<"q","u","o","t","a">>
kw_limit ==
    <<"l","i","m","i","t">>
kw_api_key ==
    <<"a","p","i"," ","k","e","y">>
kw_unauthorized ==
    <<"u","n","a","u","t","h","o","r","i","z","e","d">>
kw_not_found ==
    <<"n","o","t"," ","f","o","u","n","d">>
kw_403 ==
    <<"4","0","3">>
kw_401 ==
    <<"4","0","1">>
kw_413 ==
    <<"4","1","3">>
kw_429 ==
    <<"4","2","9">>
kw_API_Key ==
    <<"A","P","I"," ","K","e","y">>
kw_seguranca ==
    <<"s","e","g","u","r","a","n","c","a">>
kw_API_KEY_INVALID ==
    <<"A","P","I","_","K","E","Y","_","I","N","V","A","L","I","D">>
kw_Resource_exhausted ==
    <<"R","e","s","o","u","r","c","e"," ","h","a","s"," ","b","e","e","n"," ","e","x","h","a",
      "u","s","t","e","d">>
\* Messages of the errors the code itself throws.
msg_EmptyModel ==
    <<"E","m","p","t","y"," ","r","e","s","p","o","n","s","e"," ","f","r","o","m"," ","m","o",
      "d","e","l">>
msg_EmptyOrBlocked ==
    <<"O"," ","c","o","n","t","e","u","d","o"," ","f","o","i"," ","b","l","o","q","u","e","a",
      "d","o"," ","p","e","l","o","s"," ","f","i","l","t","r","o","s"," ","d","e"," ","s","e",
      "g","u","r","a","n","c","a"," ","d","a"," ","A","P","I"," ","o","u"," ","r","e","t","o",
      "r","n","o","u"," ","v","a","z","i","o",".">>
msg_EmptyFrames ==
    <<"A"," ","I","A"," ","n","a","o"," ","c","o","n","s","e","g","u","i","u"," ","p","r","o",
      "c","e","s","s","a","r"," ","o","s"," ","q","u","a","d","r","o","s","."," ","T","e","n",
      "t","e"," ","u","m"," ","v","i","d","e","o"," ","c","o","m"," ","o"," ","s","u","r","f",
      "i","s","t","a"," ","m","a","i","s"," ","p","r","o","x","i","m","o"," ","d","a"," ","c",
      "a","m","e","r","a",".">>
msg_Malformed ==
    <<"F","a","l","h","a"," ","n","a"," ","s","i","n","c","r","o","n","i","z","a","c","a","o",
      " ","d","e"," ","d","a","d","o","s","."," ","O"," ","m","o","t","o","r"," ","n","e","u",
      "r","a","l"," ","g","e","r","o","u"," ","u","m","a"," ","r","e","s","p","o","s","t","a",
      " ","m","a","l","f","o","r","m","a","d","a",".">>
msg_EmptyAI ==
    <<"E","m","p","t","y"," ","r","e","s","p","o","n","s","e"," ","f","r","o","m"," ","A","I">>
msg_EmptyContent2 ==
    <<"A"," ","I","A"," ","n","a","o"," ","r","e","t","o","r","n","o","u"," ","c","o","n","t",
      "e","u","d","o","."," ","O"," ","v","i","d","e","o"," ","p","o","d","e"," ","t","e","r",
      " ","s","i","d","o"," ","b","l","o","q","u","e","a","d","o"," ","o","u"," ","e"," ","m",
      "u","i","t","o"," ","c","u","r","t","o",".">>
msg_BadFormat2 ==
    <<"A"," ","r","e","s","p","o","s","t","a"," ","d","a"," ","I","A"," ","n","a","o"," ","e",
      "s","t","a"," ","n","o"," ","f","o","r","m","a","t","o"," ","e","s","p","e","r","a","d",
      "o",".">>
msg_EmptyContent3 ==
    <<"A"," ","I","A"," ","n","a","o"," ","r","e","t","o","r","n","o","u"," ","c","o","n","t",
      "e","u","d","o","."," ","O"," ","a","r","q","u","i","v","o"," ","p","o","d","e"," ","s",
      "e","r"," ","i","n","c","o","m","p","a","t","i","v","e","l",".">>
msg_BadFormat3 ==
    <<"F","a","l","h","a"," ","a","o"," ","p","r","o","c","e","s","s","a","r"," ","o","s"," ",
      "d","a","d","o","s"," ","d","a"," ","a","n","a","l","i","s","e",".">>
msg_EmptyText5 ==
    <<"A"," ","I","A"," ","n","a","o"," ","r","e","t","o","r","n","o","u"," ","r","e","s","p",
      "o","s","t","a"," ","t","e","x","t","u","a","l",".">>
msg_KeyInvalid5 ==
    <<"S","u","a"," ","c","h","a","v","e"," ","d","e"," ","A","P","I"," ","p","a","r","e","c",
      "e"," ","i","n","v","a","l","i","d","a"," ","o","u"," ","n","a","o"," ","t","e","m"," ",
      "p","e","r","m","i","s","s","a","o"," ","p","a","r","a"," ","e","s","t","e"," ","m","o",
      "d","e","l","o",".">>
msg_KeyMissing1 ==
    <<"A","P","I","_","K","E","Y"," ","n","a","o"," ","c","o","n","f","i","g","u","r","a","d",
      "a"," ","n","o"," ","a","m","b","i","e","n","t","e",".">>
msg_KeyMissing5 ==
    <<"A","P","I"," ","K","e","y"," ","i","s"," ","m","i","s","s","i","n","g","."," ","P","o",
      "r"," ","f","a","v","o","r",","," ","c","e","r","t","i","f","i","q","u","e","-","s","e",
      " ","d","e"," ","s","e","l","e","c","i","o","n","a","r"," ","u","m","a"," ","c","h","a",
      "v","e"," ","n","o"," ","m","e","n","u"," ","l","a","t","e","r","a","l"," ","o","u"," ",
      "a","o"," ","c","l","i","c","a","r"," ","e","m"," ","c","a","r","r","e","g","a","r",".">>
msg_Unexpected ==
    <<"U","n","e","x","p","e","c","t","e","d"," ","t","o","k","e","n">>

\* Phrases of error messages of the model API.
w_SAFETY ==
    <<"S","A","F","E","T","Y">>
w_blocked ==
    <<"b","l","o","c","k","e","d">>
w_candidate ==
    <<"c","a","n","d","i","d","a","t","e">>
w_quota ==
    <<"q","u","o","t","a">>
w_exhausted ==
    <<"R","e","s","o","u","r","c","e"," ","h","a","s"," ","b","e","e","n"," ","e","x","h","a",
      "u","s","t","e","d">>
w_429 ==
    <<"4","2","9">>
w_limit ==
    <<"r","a","t","e"," ","l","i","m","i","t">>
w_apikey ==
    <<"A","P","I"," ","k","e","y"," ","n","o","t"," ","v","a","l","i","d">>
w_APIKEY ==
    <<"A","P","I"," ","K","E","Y"," ","N","O","T"," ","V","A","L","I","D">>
w_Unauthorized ==
    <<"U","n","a","u","t","h","o","r","i","z","e","d">>
w_403 ==
    <<"4","0","3">>
w_401 ==
    <<"4","0","1">>
w_notfound ==
    <<"R","e","q","u","e","s","t","e","d"," ","e","n","t","i","t","y"," ","w","a","s"," ","n",
      "o","t"," ","f","o","u","n","d">>
w_fetch ==
    <<"f","e","t","c","h"," ","f","a","i","l","e","d">>

\* ------------------------------------------------------------------ errors
\* A thrown value: the constructor's name and the message.
Err(name, message) ==
    [name |-> name, message |-> message]

errName(e) ==
    IF e.name = "SyntaxError"
    THEN <<"S","y","n","t","a","x","E","r","r","o","r">>
    ELSE <<"E","r","r","o","r">>

\* Error.prototype.toString(): the name alone when the message is empty.
toString(e) ==
    IF e.message = << >> THEN errName(e) ELSE errName(e) \o <<":", " ">> \o e.message

\* What JSON.parse throws; the wording is the engine's.
SyntaxErr ==
    Err("SyntaxError", msg_Unexpected)

\* ------------------------------------------------------ messages of the UI
\* A message shown to the user: one of the fixed messages of the code,
\* named by id, or the raw message of the error (id "raw").
NoMsg ==
    [id |-> "", raw |-> << >>]

Msg(id) ==
    [id |-> id, raw |-> << >>]

\* error.message || fallback
MsgOr(message, fallback) ==
    IF message = << >> THEN Msg(fallback) ELSE [id |-> "raw", raw |-> message]

\* ---------------------------------------------------------------- versions
\* The versions of App that call the model themselves.
DirectVariants ==
    {"App_1", "App_2", "App_3", "part0", "part2_2", "part2_3",
     "part3_1", "part3_2", "part3_3"}

\* The versions of App that call analyzeSurfVideo of ./services/geminiService.
ServiceVariants ==
    {"part1", "part2_1"}

Variants ==
    DirectVariants \cup ServiceVariants

\* The versions of services/geminiService.
Services ==
    {"svc_1", "svc_2", "svc_3", "part5"}

\* ------------------------------------------ from response text to a result
Parsed(value) ==
    [ok |-> TRUE, value |-> value, error |-> Err("", << >>)]

Thrown(e) ==
    [ok |-> FALSE, value |-> << >>, error |-> e]

\* JSON.parse(text): the value, or a SyntaxError.
tryParse(text) ==
    IF isJSON(text) THEN Parsed(JSONparse(text)) ELSE Thrown(SyntaxErr)

\* The text between the first "{" and the last "}", when both exist.
sliceBraces(rawText) ==
    LET jsonContent == trim(rawText)
        firstBrace  == indexOf(jsonContent, "{")
        lastBrace   == lastIndexOf(jsonContent, "}")
    IN  IF firstBrace # -1 /\ lastBrace # -1
        THEN substring(jsonContent, firstBrace, lastBrace + 1)
        ELSE jsonContent

\* response.text || "{}"
orEmptyObject(text) ==
    IF text = << >> THEN <<"{", "}">> ELSE text

parse_App_1(text) ==
    tryParse(text)

parse_App_2(text) ==
    tryParse(sliceBraces(text))

parse_App_3(text) ==
    IF text = << >> THEN Thrown(Err("Error", msg_EmptyOrBlocked))
    ELSE tryParse(trim(text))

parse_part0(text) ==
    IF text = << >> THEN Thrown(Err("Error", msg_EmptyModel))
    ELSE tryParse(text)

parse_part2_2(text) ==
    tryParse(orEmptyObject(text))

parse_part2_3(text) ==
    tryParse(orEmptyObject(text))

parse_part3_1(text) ==
    tryParse(orEmptyObject(text))

parse_part3_2(text) ==
    IF text = << >> THEN Thrown(Err("Error", msg_EmptyFrames))
    ELSE IF tryParse(sliceBraces(text)).ok THEN tryParse(sliceBraces(text))
    ELSE Thrown(Err("Error", msg_Malformed))

parse_part3_3(text) ==
    tryParse(sliceBraces(text))

parse_svc_1(text) ==
    IF text = << >> THEN Thrown(Err("Error", msg_EmptyAI))
    ELSE tryParse(text)

parse_svc_2(text) ==
    IF text = << >> THEN Thrown(Err("Error", msg_EmptyContent2))
    ELSE IF tryParse(text).ok THEN tryParse(text)
    ELSE Thrown(Err("Error", msg_BadFormat2))

parse_svc_3(text) ==
    IF text = << >> THEN Thrown(Err("Error", msg_EmptyContent3))
    ELSE IF tryParse(text).ok THEN tryParse(text)
    ELSE Thrown(Err("Error", msg_BadFormat3))

parse_part5(text) ==
    IF text = << >> THEN Thrown(Err("Error", msg_EmptyText5))
    ELSE tryParse(text)

\* The catch of part_005: an API_KEY_INVALID error is replaced, any other
\* error is thrown again.
rethrow_part5(e) ==
    IF includes(e.message, kw_API_KEY_INVALID) THEN Err("Error", msg_KeyInvalid5) ELSE e

\* What the requester of version v, linked with service s, makes of the
\* text of a response.
parseResponse(v, s, text) ==
    CASE v = "App_1"   -> parse_App_1(text)
      [] v = "App_2"   -> parse_App_2(text)
      [] v = "App_3"   -> parse_App_3(text)
      [] v = "part0"   -> parse_part0(text)
      [] v = "part2_2" -> parse_part2_2(text)
      [] v = "part2_3" -> parse_part2_3(text)
      [] v = "part3_1" -> parse_part3_1(text)
      [] v = "part3_2" -> parse_part3_2(text)
      [] v = "part3_3" -> parse_part3_3(text)
      [] v \in ServiceVariants /\ s = "svc_1" -> parse_svc_1(text)
      [] v \in ServiceVariants /\ s = "svc_2" -> parse_svc_2(text)
      [] v \in ServiceVariants /\ s = "svc_3" -> parse_svc_3(text)
      [] v \in ServiceVariants /\ s = "part5" ->
            IF parse_part5(text).ok THEN parse_part5(text)
            ELSE Thrown(rethrow_part5(parse_part5(text).error))

\* The error that reaches the catch of the App when the model call rejects
\* with e: only part_005 stands in between.
rejected(v, s, e) ==
    IF v \in ServiceVariants /\ s = "part5" THEN rethrow_part5(e) ELSE e

\* ---------------------------------------------------------- the catch blocks
\* What a catch block does with the error e: the message it shows, the
\* re-authentication signal it raises ("none", "hasApiKey": setHasApiKey(false),
\* "selector": window.aistudio.openSelectKey()) and the state it sets.
Caught(msg, signal, st) ==
    [msg |-> msg, signal |-> signal, state |-> st]

catch_App_1(e) ==
    Caught(Msg("technical_invalid_video"), "none", "ERROR")

catch_App_2(e) ==
    LET errorStr == toLowerCase(toString(e))
    IN  IF \/ includes(errorStr, kw_not_found)
           \/ includes(errorStr, kw_api_key)
           \/ includes(errorStr, kw_unauthorized)
        THEN Caught(Msg("session_expired"), "hasApiKey", "ERROR")
        ELSE Caught(MsgOr(e.message, "neural_processing"), "none", "ERROR")

catch_App_3(e) ==
    IF includes(e.message, kw_seguranca) \/ includes(e.message, kw_blocked)
    THEN Caught(Msg("safety_flagged"), "none", "ERROR")
    ELSE IF e.name = "SyntaxError"
    THEN Caught(Msg("data_structure"), "none", "ERROR")
    ELSE Caught(Msg("neural_lighting"), "none", "ERROR")

\* The catch of part_000 with the overload message as its default.
catch_part0_overloaded(e) ==
    IF includes(e.message, kw_safety)
    THEN Caught(Msg("safety_blocked"), "none", "ERROR")
    ELSE Caught(Msg("overloaded"), "none", "ERROR")

\* The part of the catch of part_000 after the retry test.
catch_part0(e) ==
    IF includes(e.message, kw_Resource_exhausted)
    THEN Caught(Msg("overloaded"), "none", "ERROR")
    ELSE IF includes(e.message, kw_safety)
    THEN Caught(Msg("safety_blocked"), "none", "ERROR")
    ELSE Caught(Msg("technical"), "none", "ERROR")

catch_part2_2(e) ==
    LET msg == toLowerCase(toString(e))
    IN  IF includes(msg, kw_api_key) \/ includes(msg, kw_not_found)
        THEN Caught(Msg("connection_force_auth"), "none", "ERROR")
        ELSE Caught(Msg("not_analyzable"), "none", "ERROR")

\* hasStudio: window.aistudio is defined.
catch_part2_3(e, hasStudio) ==
    LET errorMsg == toLowerCase(toString(e))
    IN  IF \/ includes(errorMsg, kw_not_found)
           \/ includes(errorMsg, kw_api_key)
           \/ includes(errorMsg, kw_403)
           \/ includes(errorMsg, kw_401)
        THEN IF hasStudio
             THEN Caught(Msg("connection_restarted"), "selector", "IDLE")
             ELSE Caught(Msg("authorization"), "none", "IDLE")
        ELSE Caught(Msg("cannot_analyze"), "none", "IDLE")

catch_part3_1(e) ==
    IF includes(e.message, kw_API_Key) \/ includes(e.message, kw_not_found)
    THEN Caught(Msg("engine_activate"), "none", "ERROR")
    ELSE Caught(Msg("analysis_shorter"), "none", "ERROR")

catch_part3_2(e) ==
    LET errorStr == toLowerCase(toString(e))
    IN  IF \/ includes(errorStr, kw_safety)
           \/ includes(errorStr, kw_blocked)
           \/ includes(errorStr, kw_candidate)
        THEN Caught(Msg("safety_filters"), "none", "ERROR")
        ELSE IF includes(errorStr, kw_quota) \/ includes(errorStr, kw_limit)
        THEN Caught(Msg("limit_reached"), "none", "ERROR")
        ELSE IF includes(errorStr, kw_api_key) \/ includes(errorStr, kw_unauthorized)
        THEN Caught(Msg("key_invalid"), "none", "ERROR")
        ELSE Caught(MsgOr(e.message, "neural_engine"), "none", "ERROR")

catch_part3_3(e) ==
    Caught(MsgOr(e.message, "neural_connection"), "none", "ERROR")

catch_part1(e) ==
    IF includes(e.message, kw_413)
    THEN Caught(Msg("too_heavy"), "none", "ERROR")
    ELSE IF includes(e.message, kw_429)
    THEN Caught(Msg("too_many_requests"), "none", "ERROR")
    ELSE Caught(MsgOr(e.message, "unexpected"), "none", "ERROR")

catch_part2_1(e) ==
    Caught(Msg("check_key_or_connection"), "none", "ERROR")

\* The catch block of version v around the model call.
catchError(v, e, hasStudio) ==
    CASE v = "App_1"   -> catch_App_1(e)
      [] v = "App_2"   -> catch_App_2(e)
      [] v = "App_3"   -> catch_App_3(e)
      [] v = "part0"   -> catch_part0(e)
      [] v = "part1"   -> catch_part1(e)
      [] v = "part2_1" -> catch_part2_1(e)
      [] v = "part2_2" -> catch_part2_2(e)
      [] v = "part2_3" -> catch_part2_3(e, hasStudio)
      [] v = "part3_1" -> catch_part3_1(e)
      [] v = "part3_2" -> catch_part3_2(e)
      [] v = "part3_3" -> catch_part3_3(e)

\* A retry limit of two.
RetryLimit_two(v) ==
    IF v = "part0" THEN 2 ELSE 0

\* retryCount < 1: the number of retries performAnalysis allows itself.
RetryLimit(v) ==
    IF v = "part0" THEN 1 ELSE 0

\* ------------------------------------------------------ the model's inputs
\* An outcome of ai.models.generateContent: a response with a text
\* (tag "text"; the empty text stands for a response without text) or a
\* rejection with an error (tag "error", text is the error's message).
TextOutcome(t) ==
    [tag |-> "text", text |-> t]

ErrorOutcome(m) ==
    [tag |-> "error", text |-> m]

NoOutcome ==
    [tag |-> "none", text |-> << >>]

\* Phrases of the error messages of the model API.
ErrWords ==
    {w_SAFETY, w_blocked, w_candidate, w_quota, w_exhausted, w_429, w_limit,
     w_apikey, w_APIKEY, w_Unauthorized, w_403, w_401, w_notfound, w_fetch}

RECURSIVE joinWords(_)
joinWords(ws) ==
    IF Len(ws) = 0 THEN << >>
    ELSE IF Len(ws) = 1 THEN ws[1]
    ELSE ws[1] \o <<" ">> \o joinWords(Tail(ws))

SeqsUpTo(S, n) ==
    UNION {[1..k -> S] : k \in 0..n}

\* Every error message of up to MaxErrWords phrases, the empty one included.
ErrTexts ==
    {joinWords(ws) : ws \in SeqsUpTo(ErrWords, MaxErrWords)}

\* Every response text of up to MaxRespLen tokens.
RespTexts ==
    SeqsUpTo(RespChars, MaxRespLen)

AllOutcomes ==
    {TextOutcome(t) : t \in RespTexts} \cup {ErrorOutcome(m) : m \in ErrTexts}

\* The outcomes of the sessions with several uploads: a well-formed object,
\* a response without text, a network error and a credential error.
SampleOutcomes ==
    {TextOutcome(<<"{", "m", "}">>),
     TextOutcome(<< >>),
     ErrorOutcome(w_fetch),
     ErrorOutcome(w_apikey)}

\* File sizes around the two thresholds of the code, in bytes.
TenMiB ==
    10 * 1024 * 1024

HundredMiB ==
    100 * 1024 * 1024

FileSizes(v) ==
    CASE v = "App_3"   -> {TenMiB, TenMiB + 1}
      [] v = "part2_1" -> {HundredMiB, HundredMiB + 1}
      [] OTHER         -> {TenMiB}

\* Video durations around the limit of part_002, in seconds.
Durations ==
    {65, 66}

\* -------------------------------------------------------------------- state
VARIABLES
    variant,        \* the version of App this session runs
    svc,            \* the version of services/geminiService linked in
    apiKey,         \* process.env.API_KEY is set
    aistudio,       \* window.aistudio is defined
    keyVersion,     \* which key process.env.API_KEY holds, counted by its rotations
    state,          \* AppState
    analysis,       \* AnalysisResult | null
    videoUrl,       \* 0 for null, else the upload that made the object URL
    errorMessage,   \* the message shown (`error' in part_002's runAnalysis)
    isOptimizing,
    hasApiKey,      \* "null", "true", "false" (App.tsx, second version)
    keyPrompts,     \* calls of window.aistudio.openSelectKey so far
    keyFlow,        \* "checking": checkKey pending, "selecting": handleSelectKey pending
    runs,           \* the uploads of the session, each with its position
    handled,        \* the outcome the last step handled, and for which run
    sampler         \* one call of extractFrames, step by step

vars ==
    <<variant, svc, apiKey, aistudio, keyVersion, state, analysis, videoUrl,
      errorMessage, isOptimizing, hasApiKey, keyPrompts, keyFlow, runs, handled,
      sampler>>

env ==
    <<variant, svc, apiKey, aistudio, keyVersion>>

Null ==
    << >>

RunIds ==
    1..MaxRuns

\* An upload that has not happened yet.
NoRun ==
    [pc |-> "none", size |-> 0, retryCount |-> 0, calls |-> 0,
     payloads |-> << >>, keys |-> << >>, fails |-> << >>, sampling |-> ""]

NotHandled ==
    [run |-> 0, attempt |-> 0, out |-> NoOutcome]

\* extractFrames has not been called.
NoSampler ==
    [pc |-> "none", frameCount |-> 0, duration |-> 0, i |-> 0,
     time |-> [num |-> 0, den |-> 1], frames |-> << >>,
     timeout |-> "none", url |-> "none", promise |-> "none",
     value |-> << >>, reason |-> ""]

\* The versions whose modelled handlers test process.env.API_KEY or pass it
\* to the client without a test (the services), and those that test
\* window.aistudio; for the others one value stands for both.
readsApiKey(v, s) ==
    v = "App_2" \/ s \in {"svc_1", "svc_2", "svc_3", "part5"}

readsAistudio(v) ==
    v \in {"App_2", "part2_3"}

Init ==
    /\ variant \in Variants
    /\ svc \in (IF variant \in ServiceVariants THEN Services ELSE {"none"})
    /\ apiKey \in (IF readsApiKey(variant, svc) THEN BOOLEAN ELSE {TRUE})
    /\ aistudio \in (IF readsAistudio(variant) THEN BOOLEAN ELSE {TRUE})
    /\ keyVersion = 0
    /\ state = "IDLE"
    /\ analysis = Null
    /\ videoUrl = 0
    /\ errorMessage = NoMsg
    /\ isOptimizing = FALSE
    /\ hasApiKey = "null"
    /\ keyPrompts = 0
    /\ keyFlow = IF variant = "App_2" THEN "checking" ELSE "idle"
    /\ runs = [r \in RunIds |-> NoRun]
    /\ handled = NotHandled
    /\ sampler = NoSampler

\* ------------------------------------------------- the taxonomy of failures
\* The kind the specification gives to an error text (section 4.2); used to
\* record, per run, the kind of each failed call.
kw_exhausted ==
    <<"e","x","h","a","u","s","t","e","d">>

specClassify(text) ==
    LET t == toLowerCase(text)
    IN  IF includes(t, kw_safety) \/ includes(t, kw_blocked) \/ includes(t, kw_candidate)
        THEN "ContentBlocked"
        ELSE IF includes(t, kw_quota) \/ includes(t, kw_exhausted) \/ includes(t, kw_429)
        THEN "RateLimited"
        ELSE IF \/ includes(t, kw_api_key) \/ includes(t, kw_unauthorized)
                \/ includes(t, kw_403) \/ includes(t, kw_401) \/ includes(t, kw_not_found)
        THEN "CredentialInvalid"
        ELSE "TransientFailure"

\* The kind of a call that failed with outcome o: a rejection by its text,
\* a response by what was wrong with it.
failKind(o) ==
    IF o.tag = "error" THEN specClassify(o.text)
    ELSE IF o.text = << >> THEN "EmptyResponse"
    ELSE "MalformedResponse"

\* The kind a message of the UI stands for.
kindOfMessage(m) ==
    IF m.id \in {"safety_flagged", "safety_blocked", "safety_filters"}
    THEN "ContentBlocked"
    ELSE IF m.id \in {"overloaded", "limit_reached", "too_many_requests"}
    THEN "RateLimited"
    ELSE IF m.id \in {"session_expired", "connection_force_auth", "connection_restarted",
                      "authorization", "engine_activate", "key_invalid"}
    THEN "CredentialInvalid"
    ELSE "TransientFailure"

\* ------------------------------------------------------------------ helpers
SamplingVariants ==
    {"App_2", "part2_2", "part2_3", "part3_1", "part3_2", "part3_3"}

\* The versions whose state has isOptimizing.
OptimizingVariants ==
    {"App_2", "App_3", "part2_2", "part3_1", "part3_2", "part3_3"}

\* A test that samples a file of exactly 10 MiB too.
samples_fromTenMiB(v, size) ==
    v \in SamplingVariants \/ (v = "App_3" /\ size >= TenMiB)

\* extractFrames is used: always in the sampling versions, above 10 MiB in
\* the third version of App.tsx.
samples(v, size) ==
    v \in SamplingVariants \/ (v = "App_3" /\ size > TenMiB)

\* The request payload: the sampled frames or the raw video.
payloadOf(v, size) ==
    IF samples(v, size) THEN "frames" ELSE "video"

\* A retry that sends the text part alone.
retryPayload_empty(run) ==
    "none"

\* The payload of the retry: performAnalysis calls itself with its own
\* arguments.
retryPayload(run) ==
    run.payloads[Len(run.payloads)]

\* The file input can be reached.
uploadEnabled ==
    CASE variant \in {"part1", "part2_1"} -> TRUE
      [] variant = "App_2"   -> state = "IDLE" /\ hasApiKey # "false"
      [] variant = "part2_3" -> state = "IDLE" /\ analysis = Null
      [] OTHER               -> state = "IDLE"

\* The reset button is rendered.
resetEnabled ==
    CASE variant \in {"part1", "part2_1"} -> state = "ERROR"
      [] variant = "App_2"   -> state # "IDLE" /\ hasApiKey # "false"
      [] variant = "part2_3" -> state # "IDLE" \/ analysis # Null
      [] variant = "part3_1" -> FALSE
      [] OTHER               -> state # "IDLE"

\* getAIClient and part_005 throw before any request when no key is set.
keyMissing ==
    variant \in ServiceVariants /\ svc \in {"svc_1", "part5"} /\ ~apiKey

keyMissingError ==
    IF svc = "svc_1" THEN Err("Error", msg_KeyMissing1) ELSE Err("Error", msg_KeyMissing5)

\* A client kept from the first call of the run.
clientKey_cached(run) ==
    IF run.keys = << >> THEN keyVersion ELSE run.keys[1]

\* new GoogleGenAI({ apiKey: process.env.API_KEY }) at the top of
\* performAnalysis (runAnalysis, analyzeSurfVideo): the key the client of
\* this call is built from.
clientKey(run) ==
    keyVersion

\* A catch block that never calls performAnalysis again.
retryPending_never(run) ==
    FALSE

\* `if (retryCount < 1)' at the top of the catch block of part_000: the
\* failed call is followed by another one, and the catch block returns
\* before it sets a message or a state.
retryPending(run) ==
    run.retryCount < RetryLimit(variant)

\* generateContent is called with payload p.
beginCall(run, p) ==
    [run EXCEPT !.pc = "calling", !.calls = @ + 1, !.payloads = Append(@, p),
                !.keys = Append(@, clientKey(run))]

\* setErrorMessage, setState and setHasApiKey of a catch block.
ShowError(c) ==
    /\ errorMessage' = c.msg
    /\ state' = c.state
    /\ hasApiKey' = IF c.signal = "hasApiKey" THEN "false" ELSE hasApiKey

\* performAnalysis (runAnalysis, analyzeSurfVideo) is entered by run r with
\* payload p, after setState(ANALYZING).
EnterAnalysis(r, p) ==
    IF keyMissing
    THEN /\ ShowError(catchError(variant, keyMissingError, aistudio))
         /\ runs' = [runs EXCEPT ![r].pc = "done"]
    ELSE /\ state' = "ANALYZING"
         /\ runs' = [runs EXCEPT ![r] = beginCall(@, p)]
         /\ UNCHANGED <<errorMessage, hasApiKey>>

\* ------------------------------------------------------------------ actions
\* handleFileUpload (onFileChange and runAnalysis in part_002) up to its
\* first await: upload r of a file of `size' bytes.
handleFileUpload(r, size) ==
    /\ uploadEnabled
    /\ runs[r].pc = "none"
    /\ \A q \in RunIds : q < r => runs[q].pc # "none"
    /\ handled' = NotHandled
    /\ IF variant = "part2_1" /\ size > HundredMiB
       THEN /\ errorMessage' = Msg("file_too_large")
            /\ state' = "ERROR"
            /\ runs' = [runs EXCEPT ![r].pc = "done", ![r].size = size]
            /\ UNCHANGED <<analysis, videoUrl, isOptimizing>>
       ELSE /\ state' = "UPLOADING"
            /\ videoUrl' = r
            /\ analysis' = IF variant = "part3_2" THEN Null ELSE analysis
            /\ errorMessage' = IF variant \in {"part3_2", "part2_3"} THEN NoMsg ELSE errorMessage
            /\ isOptimizing' = IF samples(variant, size) /\ variant \in OptimizingVariants
                               THEN TRUE ELSE isOptimizing
            /\ runs' = [runs EXCEPT ![r].size = size,
                                    ![r].pc = IF samples(variant, size) THEN "sampling"
                                              ELSE IF variant = "part2_1" THEN "metadata"
                                              ELSE "reading"]
    /\ UNCHANGED <<env, sampler, keyFlow, hasApiKey, keyPrompts>>

\* videoElement.onloadedmetadata of part_002's first version.
metadataLoaded(r, duration) ==
    /\ runs[r].pc = "metadata"
    /\ handled' = NotHandled
    /\ IF duration > 65
       THEN /\ errorMessage' = Msg("video_too_long")
            /\ state' = "ERROR"
            /\ runs' = [runs EXCEPT ![r].pc = "done"]
       ELSE /\ runs' = [runs EXCEPT ![r].pc = "reading"]
            /\ UNCHANGED <<errorMessage, state>>
    /\ UNCHANGED <<env, sampler, keyFlow, analysis, videoUrl, isOptimizing, hasApiKey, keyPrompts>>

\* reader.onload: the file is read, the analysis starts.
fileLoaded(r) ==
    /\ runs[r].pc = "reading"
    /\ handled' = NotHandled
    /\ EnterAnalysis(r, payloadOf(variant, runs[r].size))
    /\ UNCHANGED <<env, sampler, keyFlow, analysis, videoUrl, isOptimizing, keyPrompts>>

\* The versions whose FileReader has an onerror handler.
hasReaderOnError(v) ==
    v \in {"part0", "part1"}

\* The FileReader fails to read the file: reader.onerror where the version
\* sets it; elsewhere the error event has no listener, onload never fires
\* and nothing else ends the run.
fileReadError(r) ==
    /\ runs[r].pc = "reading"
    /\ handled' = NotHandled
    /\ IF hasReaderOnError(variant)
       THEN /\ errorMessage' = Msg("file_read_error")
            /\ state' = "ERROR"
            /\ runs' = [runs EXCEPT ![r].pc = "done"]
       ELSE /\ runs' = [runs EXCEPT ![r].pc = "unread"]
            /\ UNCHANGED <<errorMessage, state>>
    /\ UNCHANGED <<env, sampler, keyFlow, analysis, videoUrl, isOptimizing, hasApiKey, keyPrompts>>

\* extractFrames resolves with the frames.
framesExtracted(r) ==
    /\ runs[r].pc = "sampling"
    /\ handled' = NotHandled
    /\ isOptimizing' = IF variant \in OptimizingVariants THEN FALSE ELSE isOptimizing
    /\ EnterAnalysis(r, payloadOf(variant, runs[r].size))
    /\ UNCHANGED <<env, sampler, keyFlow, analysis, videoUrl, keyPrompts>>

\* The ways extractFrames rejects: its timer, video.onerror, its catch
\* block.
samplingFailures(v) ==
    (IF v = "App_3" THEN {} ELSE {"sampling_timeout"})
    \cup (IF v \in {"App_3", "part2_3", "part3_2", "part3_3"} THEN {"video_error"} ELSE {})
    \cup {"capture_error"}

\* A handler that goes on to the analysis with the frames taken so far.
framesFailed_sendsPartial(r, why) ==
    /\ runs[r].pc = "sampling"
    /\ why \in samplingFailures(variant)
    /\ handled' = NotHandled
    /\ errorMessage' = IF variant = "part2_3" THEN Msg("cannot_analyze") ELSE Msg(why)
    /\ state' = "ANALYZING"
    /\ runs' = [runs EXCEPT ![r] = [beginCall(@, "frames") EXCEPT !.sampling = why]]
    /\ UNCHANGED <<env, sampler, keyFlow, analysis, videoUrl, isOptimizing, hasApiKey, keyPrompts>>

\* extractFrames rejects; the catch of handleFileUpload shows err.message,
\* the catch of runAnalysis its own message.
framesFailed(r, why) ==
    /\ runs[r].pc = "sampling"
    /\ why \in samplingFailures(variant)
    /\ handled' = NotHandled
    /\ errorMessage' = IF variant = "part2_3" THEN Msg("cannot_analyze") ELSE Msg(why)
    /\ state' = IF variant = "part2_3" THEN "IDLE" ELSE "ERROR"
    /\ runs' = [runs EXCEPT ![r].pc = "done", ![r].sampling = why]
    /\ UNCHANGED <<env, sampler, keyFlow, analysis, videoUrl, isOptimizing, hasApiKey, keyPrompts>>

\* The rest of performAnalysis once generateContent has settled with
\* outcome o: parse and complete, retry, or catch.
settle(r, o) ==
    LET run == runs[r]
        res == IF o.tag = "text"
               THEN parseResponse(variant, svc, o.text)
               ELSE Thrown(rejected(variant, svc, Err("Error", o.text)))
        c   == catchError(variant, res.error, aistudio)
    IN  /\ run.pc = "calling"
        /\ IF res.ok
           THEN /\ analysis' = res.value
                /\ state' = "COMPLETED"
                /\ runs' = [runs EXCEPT ![r].pc = "done"]
                /\ handled' = [run |-> r, attempt |-> run.calls, out |-> o]
                /\ UNCHANGED <<errorMessage, hasApiKey, keyPrompts>>
           ELSE IF retryPending(run)
           THEN /\ runs' = [runs EXCEPT ![r] =
                        [beginCall(run, retryPayload(run)) EXCEPT
                            !.retryCount = @ + 1,
                            !.fails = Append(@, failKind(o))]]
                /\ handled' = [run |-> r, attempt |-> run.calls, out |-> NoOutcome]
                /\ UNCHANGED <<analysis, state, errorMessage, hasApiKey, keyPrompts>>
           ELSE IF c.signal = "selector"
           THEN /\ keyPrompts' = keyPrompts + 1
                /\ runs' = [runs EXCEPT ![r].pc = "selecting",
                                        ![r].fails = Append(@, failKind(o))]
                /\ handled' = [run |-> r, attempt |-> run.calls, out |-> o]
                /\ UNCHANGED <<analysis, state, errorMessage, hasApiKey>>
           ELSE /\ ShowError(c)
                /\ runs' = [runs EXCEPT ![r].pc = "done",
                                        ![r].fails = Append(@, failKind(o))]
                /\ handled' = [run |-> r, attempt |-> run.calls, out |-> o]
                /\ UNCHANGED <<analysis, keyPrompts>>
        /\ UNCHANGED <<env, sampler, keyFlow, videoUrl, isOptimizing>>

\* generateContent settles with one of the sample outcomes.
respond(r) ==
    /\ runs[r].pc = "calling"
    /\ \E o \in SampleOutcomes : settle(r, o)

\* generateContent settles with any outcome within the bounds.
respondAny(r) ==
    /\ runs[r].pc = "calling"
    /\ \E o \in AllOutcomes : settle(r, o)

\* The key in process.env.API_KEY is replaced by another one (the user
\* picks a key in the dialog of the host page) while the app is running.
rotateKey ==
    /\ apiKey
    /\ keyVersion < MaxKeyRotations
    /\ keyVersion' = keyVersion + 1
    /\ UNCHANGED <<variant, svc, apiKey, aistudio, state, analysis, videoUrl,
                   errorMessage, isOptimizing, hasApiKey, keyPrompts, keyFlow,
                   runs, handled, sampler>>

\* window.aistudio.openSelectKey() resolves in the catch of runAnalysis.
keySelected(r) ==
    /\ runs[r].pc = "selecting"
    /\ handled' = NotHandled
    /\ errorMessage' = Msg("connection_restarted")
    /\ state' = "IDLE"
    /\ runs' = [runs EXCEPT ![r].pc = "done"]
    /\ UNCHANGED <<env, sampler, keyFlow, analysis, videoUrl, isOptimizing, hasApiKey, keyPrompts>>

\* reset (resetApp, the inline handler of part_002's runAnalysis version).
reset ==
    /\ resetEnabled
    /\ handled' = NotHandled
    /\ state' = "IDLE"
    /\ analysis' = Null
    /\ videoUrl' = IF variant = "part2_3" THEN videoUrl ELSE 0
    /\ errorMessage' = NoMsg
    /\ isOptimizing' = IF variant \in {"App_3", "part3_2", "part3_3"} THEN FALSE ELSE isOptimizing
    /\ UNCHANGED <<env, sampler, keyFlow, hasApiKey, keyPrompts, runs>>

\* checkKey of the mount effect (App.tsx, second version) resolves:
\* hasSelectedApiKey() answers either way, without aistudio the key decides.
checkKey ==
    /\ keyFlow = "checking"
    /\ handled' = NotHandled
    /\ hasApiKey' \in (IF aistudio THEN {"true", "false"}
                       ELSE {IF apiKey THEN "true" ELSE "false"})
    /\ keyFlow' = "idle"
    /\ UNCHANGED <<env, sampler, state, analysis, videoUrl, errorMessage, isOptimizing, keyPrompts, runs>>

\* handleSelectKey, the button of the key set-up screen, up to its await.
handleSelectKey ==
    /\ variant = "App_2"
    /\ hasApiKey = "false"
    /\ aistudio
    /\ keyFlow = "idle"
    /\ handled' = NotHandled
    /\ keyPrompts' = keyPrompts + 1
    /\ keyFlow' = "selecting"
    /\ UNCHANGED <<env, sampler, state, analysis, videoUrl, errorMessage, isOptimizing, hasApiKey, runs>>

\* openSelectKey() of handleSelectKey resolves.
keySelectorClosed ==
    /\ keyFlow = "selecting"
    /\ handled' = NotHandled
    /\ hasApiKey' = "true"
    /\ keyFlow' = "idle"
    /\ UNCHANGED <<env, sampler, state, analysis, videoUrl, errorMessage, isOptimizing, keyPrompts, runs>>

\* ------------------------------------------------------------ extractFrames
\* One call of extractFrames, followed event by event: the promise
\* executor, video.onloadedmetadata with its loop of seeks, the 'seeked'
\* listener of each seek, the timer and video.onerror.  Times are exact
\* fractions of a second.

\* The versions that have extractFrames.
SamplerVariants ==
    SamplingVariants \cup {"App_3"}

\* frameCount: number = 16 (12, 18); the third part_002 has the literal 12.
defaultFrameCount(v) ==
    CASE v = "App_2"   -> 16
      [] v = "App_3"   -> 12
      [] v = "part2_2" -> 18
      [] v = "part2_3" -> 12
      [] v = "part3_1" -> 12
      [] v = "part3_2" -> 16
      [] v = "part3_3" -> 16

\* The frame counts extractFrames is called with: its default, and where
\* frameCount is a parameter every count up to MaxFrameCount.
FrameCounts(v) ==
    IF v = "part2_3" THEN {12}
    ELSE (1..MaxFrameCount) \cup {defaultFrameCount(v)}

\* video.duration once the metadata is loaded: a positive number of
\* seconds, or Infinity (a recording without a duration in its header).
Infinity ==
    1000000

VideoDurations ==
    (1..MaxDuration) \cup {Infinity}

RECURSIVE gcd(_, _)
gcd(a, b) ==
    IF b = 0 THEN a ELSE gcd(b, a % b)

\* The fraction n/d in lowest terms.
Frac(n, d) ==
    [num |-> n \div gcd(n, d), den |-> d \div gcd(n, d)]

fracDiv(x, k) ==
    Frac(x.num, x.den * k)

fracMul(x, k) ==
    Frac(x.num * k, x.den)

fracLess(x, y) ==
    x.num * y.den < y.num * x.den

\* The divisor that skips the last instant of the video.
frameDivisor_count(v, frameCount) ==
    IF v = "part2_3" THEN 12 ELSE frameCount

\* frameCount + 1; the literal 13 in the third part_002.
frameDivisor(v, frameCount) ==
    IF v = "part2_3" THEN 13 ELSE frameCount + 1

\* A timestamp that starts at the first instant of the video.
seekTime_fromZero(v, duration, frameCount, i) ==
    fracMul(fracDiv(Frac(duration, 1), frameDivisor(v, frameCount)), i)

\* const time = (video.duration / (frameCount + 1)) * (i + 1)
seekTime(v, duration, frameCount, i) ==
    fracMul(fracDiv(Frac(duration, 1), frameDivisor(v, frameCount)), i + 1)

\* video.currentTime = time throws a TypeError when time is not finite.
seekThrows(duration) ==
    duration = Infinity

\* A loop that stops one frame early.
loopContinues_short(i, frameCount) ==
    i < frameCount - 1

\* i < frameCount
loopContinues(i, frameCount) ==
    i < frameCount

\* const timeout = setTimeout(...): every version but the third App.tsx.
hasTimeout(v) ==
    v # "App_3"

\* video.onerror is set.
hasOnError(v) ==
    v \in {"App_3", "part2_3", "part3_2", "part3_3"}

\* A resolve that overwrites an outcome already settled.
resolveWith_overwrites(s, frames) ==
    [s EXCEPT !.promise = "resolved", !.value = frames]

\* resolve(x) and reject(x) of a promise that may be settled already.
resolveWith(s, frames) ==
    IF s.promise = "pending"
    THEN [s EXCEPT !.promise = "resolved", !.value = frames]
    ELSE s

rejectWith(s, why) ==
    IF s.promise = "pending"
    THEN [s EXCEPT !.promise = "rejected", !.reason = why]
    ELSE s

\* clearTimeout(timeout)
clearTimeout(s) ==
    [s EXCEPT !.timeout = IF @ = "armed" THEN "cleared" ELSE @]

\* URL.revokeObjectURL(url)
revokeObjectURL(s) ==
    [s EXCEPT !.url = "revoked"]

\* The statements after the loop: clearTimeout, revokeObjectURL, resolve.
afterLoop(v, s) ==
    resolveWith(revokeObjectURL(IF hasTimeout(v) THEN clearTimeout(s) ELSE s), s.frames)

\* The catch block of onloadedmetadata.
catchBlock(v, s) ==
    IF v \in {"App_2", "part3_2", "part3_3"}
    THEN rejectWith(revokeObjectURL(clearTimeout(s)), "capture_error")
    ELSE rejectWith(s, "capture_error")

\* The loop from index i on, up to its next await: the next seek, the
\* statements after the loop, or the catch block.
runLoop(v, s, i) ==
    IF loopContinues(i, s.frameCount)
    THEN IF seekThrows(s.duration)
         THEN [catchBlock(v, s) EXCEPT !.pc = "returned", !.i = i]
         ELSE [s EXCEPT !.pc = "seeking", !.i = i,
                        !.time = seekTime(v, s.duration, s.frameCount, i)]
    ELSE [afterLoop(v, s) EXCEPT !.pc = "returned", !.i = i]

\* extractFrames(file, frameCount) up to the return of the promise.
extractFrames(frameCount) ==
    /\ sampler.pc = "none"
    /\ sampler' = [NoSampler EXCEPT
                      !.pc = "loading",
                      !.frameCount = frameCount,
                      !.url = "held",
                      !.timeout = IF hasTimeout(variant) THEN "armed" ELSE "none",
                      !.promise = "pending"]
    /\ UNCHANGED <<env, state, analysis, videoUrl, errorMessage, isOptimizing,
                   hasApiKey, keyPrompts, keyFlow, runs, handled>>

\* video.onloadedmetadata, up to the first await of its loop.
onloadedmetadata(duration) ==
    /\ sampler.pc = "loading"
    /\ sampler' = runLoop(variant, [sampler EXCEPT !.duration = duration], 0)
    /\ UNCHANGED <<env, state, analysis, videoUrl, errorMessage, isOptimizing,
                   hasApiKey, keyPrompts, keyFlow, runs, handled>>

\* onSeeked: the picture at the time sought is drawn and pushed, the await
\* of the loop resumes and the loop goes on to its next await.
onSeeked ==
    /\ sampler.pc = "seeking"
    /\ sampler' = runLoop(variant,
                          [sampler EXCEPT !.frames = Append(@, sampler.time)],
                          sampler.i + 1)
    /\ UNCHANGED <<env, state, analysis, videoUrl, errorMessage, isOptimizing,
                   hasApiKey, keyPrompts, keyFlow, runs, handled>>

\* The callback of setTimeout: revokeObjectURL, reject.
timeoutFires ==
    /\ sampler.timeout = "armed"
    /\ sampler' = [rejectWith(revokeObjectURL(sampler), "sampling_timeout")
                      EXCEPT !.timeout = "fired"]
    /\ UNCHANGED <<env, state, analysis, videoUrl, errorMessage, isOptimizing,
                   hasApiKey, keyPrompts, keyFlow, runs, handled>>

\* video.onerror: the file cannot be decoded; no 'seeked' follows.
onerror ==
    /\ hasOnError(variant)
    /\ sampler.pc \in {"loading", "seeking"}
    /\ sampler' = [(IF variant = "part3_2"
                    THEN rejectWith(revokeObjectURL(clearTimeout(sampler)), "video_error")
                    ELSE rejectWith(sampler, "video_error"))
                      EXCEPT !.pc = "broken"]
    /\ UNCHANGED <<env, state, analysis, videoUrl, errorMessage, isOptimizing,
                   hasApiKey, keyPrompts, keyFlow, runs, handled>>

\* ------------------------------------------------------------ specification
Next ==
    \/ \E r \in RunIds : \E size \in FileSizes(variant) : handleFileUpload(r, size)
    \/ \E r \in RunIds : \E d \in Durations : metadataLoaded(r, d)
    \/ \E r \in RunIds : fileLoaded(r)
    \/ \E r \in RunIds : fileReadError(r)
    \/ \E r \in RunIds : framesExtracted(r)
    \/ \E r \in RunIds : \E why \in samplingFailures(variant) : framesFailed(r, why)
    \/ \E r \in RunIds : respond(r)
    \/ \E r \in RunIds : keySelected(r)
    \/ reset
    \/ checkKey
    \/ handleSelectKey
    \/ keySelectorClosed

Spec ==
    Init /\ [][Next]_vars

\* One requested analysis during which the API key may be replaced at any
\* moment, between the calls of a retry included.
NextRotate ==
    \/ \E size \in FileSizes(variant) : handleFileUpload(1, size)
    \/ \E d \in Durations : metadataLoaded(1, d)
    \/ fileLoaded(1)
    \/ fileReadError(1)
    \/ framesExtracted(1)
    \/ \E why \in samplingFailures(variant) : framesFailed(1, why)
    \/ respond(1)
    \/ keySelected(1)
    \/ checkKey
    \/ rotateKey

SpecRotate ==
    Init /\ [][NextRotate]_vars

\* One requested analysis, with every outcome of the model call within the
\* bounds: a single upload, never abandoned.
NextReq ==
    \/ \E size \in FileSizes(variant) : handleFileUpload(1, size)
    \/ \E d \in Durations : metadataLoaded(1, d)
    \/ fileLoaded(1)
    \/ fileReadError(1)
    \/ framesExtracted(1)
    \/ \E why \in samplingFailures(variant) : framesFailed(1, why)
    \/ respondAny(1)
    \/ keySelected(1)
    \/ checkKey

SpecReq ==
    Init /\ [][NextReq]_vars

\* One requested analysis under the scheduling the code can rely on: a
\* FileReader that was started ends with its load or its error event.  No
\* version sets a timer or an abort signal for generateContent, so nothing
\* is assumed about the return of the model call.
SpecReqFair ==
    SpecReq /\ WF_vars(fileLoaded(1) \/ fileReadError(1))

\* One call of extractFrames in a version that has it.  The timer of
\* setTimeout fires once its delay has passed unless it is cleared; the
\* events of the video element may stay away.
InitSampler ==
    /\ Init
    /\ variant \in SamplerVariants

NextSampler ==
    \/ \E n \in FrameCounts(variant) : extractFrames(n)
    \/ \E d \in VideoDurations : onloadedmetadata(d)
    \/ onSeeked
    \/ timeoutFires
    \/ onerror

SpecSampler ==
    InitSampler /\ [][NextSampler]_vars /\ WF_vars(timeoutFires)

\* ------------------------------------------------------------------- claims
\* A run whose last call has just been handled by the step that led here.
justHandled(r) ==
    handled.run = r /\ handled.out.tag # "none"

\* C1: one requested analysis makes at most two model calls (the first
\* attempt and at most one retry); nothing is retried more than once.
C1_AtMostTwoCalls ==
    \A r \in RunIds :
        /\ runs[r].calls <= 2
        /\ runs[r].retryCount <= 1
        /\ runs[r].calls <= runs[r].retryCount + 1

C1_Witness ==
    \E r \in RunIds : runs[r].calls = 2 /\ runs[r].retryCount = 1 /\ runs[r].pc = "done"

\* C2: a first call that fails as RateLimited, ContentBlocked or
\* MalformedResponse is not retried: no second call is made for that
\* analysis and the failure is surfaced at once.
C2_NoRetryOfPermanentFailures ==
    \A r \in RunIds :
        (/\ Len(runs[r].fails) >= 1
         /\ runs[r].fails[1] \in {"RateLimited", "ContentBlocked", "MalformedResponse"})
        => /\ runs[r].calls = 1
           /\ runs[r].pc \in {"done", "selecting"}

\* C3: when the first call fails with a TransientFailure and the second
\* call returns a well-formed object, the analysis has made exactly two
\* calls with the same payload, the state is COMPLETED and the analysis is
\* the value of the second response.
C3_RetrySucceeds ==
    \A r \in RunIds :
        (/\ justHandled(r)
         /\ handled.attempt = 2
         /\ runs[r].fails[1] = "TransientFailure"
         /\ handled.out.tag = "text"
         /\ isJSON(handled.out.text))
        => /\ runs[r].calls = 2
           /\ runs[r].retryCount = 1
           /\ runs[r].payloads[1] = runs[r].payloads[2]
           /\ runs[r].fails = <<"TransientFailure">>
           /\ runs[r].pc = "done"
           /\ state = "COMPLETED"
           /\ analysis = JSONparse(handled.out.text)

C3_Witness ==
    \E r \in RunIds :
        /\ justHandled(r)
        /\ handled.attempt = 2
        /\ runs[r].fails = <<"TransientFailure">>
        /\ handled.out.tag = "text"
        /\ Len(handled.out.text) >= 3
        /\ state = "COMPLETED"

\* C4: when two consecutive calls fail with TransientFailure, the analysis
\* has made exactly two calls, makes no third one, and ends in ERROR with
\* the message of a technical failure.
C4_RetryFails ==
    \A r \in RunIds :
        (/\ Len(runs[r].fails) >= 2
         /\ runs[r].fails[1] = "TransientFailure"
         /\ runs[r].fails[2] = "TransientFailure")
        => /\ runs[r].calls = 2
           /\ runs[r].retryCount = 1
           /\ Len(runs[r].fails) = 2
           /\ runs[r].pc = "done"
           /\ state = "ERROR"
           /\ errorMessage # NoMsg
           /\ kindOfMessage(errorMessage) = "TransientFailure"

C4_Witness ==
    \E r \in RunIds :
        /\ runs[r].fails = <<"TransientFailure", "TransientFailure">>
        /\ runs[r].pc = "done"
        /\ state = "ERROR"

\* The program is one of the versions vs, or uses one of the services ss.
inVersions(vs, ss) ==
    variant \in vs \/ svc \in ss

\* C5: in the handlers that classify by keyword (second part_003, third
\* part_002, second App.tsx), the failure shown for a rejected call is the
\* kind the classification of section 4.2 gives to the error text,
\* case-insensitively: ContentBlocked before RateLimited before
\* CredentialInvalid, anything else TransientFailure.
C5_ClassificationTotal ==
    \A r \in RunIds :
        (/\ inVersions({"part3_2", "part2_3", "App_2"}, {})
         /\ justHandled(r) /\ handled.out.tag = "error" /\ runs[r].pc = "done")
        => kindOfMessage(errorMessage) = specClassify(handled.out.text)

\* C6: in part_000 and the second part_003, an error whose text contains
\* "Resource has been exhausted" is shown as RateLimited.
C6_ExhaustedIsRateLimited ==
    \A r \in RunIds :
        (/\ inVersions({"part0", "part3_2"}, {})
         /\ justHandled(r)
         /\ handled.out.tag = "error"
         /\ runs[r].pc = "done"
         /\ includes(handled.out.text, kw_Resource_exhausted))
        => kindOfMessage(errorMessage) = "RateLimited"

\* C7: in the first part_003, the second App.tsx and the callers of
\* part_005, an error whose text contains "API key not valid", in any
\* letter case, is classified CredentialInvalid.
C7_ApiKeyNotValidIsCredential ==
    \A r \in RunIds :
        (/\ inVersions({"part3_1", "App_2"}, {"part5"})
         /\ justHandled(r)
         /\ handled.out.tag = "error"
         /\ includes(toLowerCase(handled.out.text), toLowerCase(w_apikey)))
        => \/ runs[r].pc = "selecting"
           \/ runs[r].pc = "done" /\ kindOfMessage(errorMessage) = "CredentialInvalid"

\* C8: in the second App.tsx, the third part_002 and part_000, a failure
\* classified CredentialInvalid raises the re-authenticate signal (the key
\* selector is opened or hasApiKey is false) and is not retried.
C8_CredentialSignal ==
    \A r \in RunIds :
        inVersions({"App_2", "part2_3", "part0"}, {}) =>
        /\ (/\ justHandled(r)
            /\ runs[r].pc = "done"
            /\ state # "COMPLETED"
            /\ kindOfMessage(errorMessage) = "CredentialInvalid")
           => hasApiKey = "false"
        /\ (Len(runs[r].fails) >= 1 /\ runs[r].fails[1] = "CredentialInvalid")
           => runs[r].calls = 1

\* The object a response text wraps: the text from its first "{" to its
\* last "}", when that is a well-formed object.
firstBraceOf(t) ==
    indexOf(t, "{")

lastBraceOf(t) ==
    lastIndexOf(t, "}")

wrapsObject(t) ==
    /\ firstBraceOf(t) # -1
    /\ lastBraceOf(t) > firstBraceOf(t)
    /\ isJSON(substring(t, firstBraceOf(t), lastBraceOf(t) + 1))

\* C9: in the second part_003 and the callers of geminiService.ts, a
\* response text that wraps one object in extra text is sliced from the
\* first "{" to the last "}" and parsed; the run ends COMPLETED with that
\* object.
C9_WrappedObjectParsed ==
    \A r \in RunIds :
        (/\ inVersions({"part3_2"}, {"svc_1"})
         /\ justHandled(r)
         /\ handled.out.tag = "text"
         /\ wrapsObject(handled.out.text))
        => /\ state = "COMPLETED"
           /\ analysis = JSONparse(substring(handled.out.text,
                                             firstBraceOf(handled.out.text),
                                             lastBraceOf(handled.out.text) + 1))

\* C10: in the second part_003 and the second App.tsx, a response text
\* without a "{" ... "}" pair is a reported failure: the state is ERROR
\* with a message, never COMPLETED.
C10_NoBracesIsFailure ==
    \A r \in RunIds :
        (/\ inVersions({"part3_2", "App_2"}, {})
         /\ justHandled(r)
         /\ handled.out.tag = "text"
         /\ handled.out.text # << >>
         /\ (firstBraceOf(handled.out.text) = -1 \/ lastBraceOf(handled.out.text) = -1))
        => /\ state # "COMPLETED"
           /\ runs[r].pc = "done" => (state = "ERROR" /\ errorMessage # NoMsg)

\* C11: in the callers of geminiService.ts, the first part_003 and the
\* second part_002, a response without text is a failure: the run never
\* ends COMPLETED, it ends in ERROR with a message.
C11_EmptyResponseFails ==
    \A r \in RunIds :
        (/\ inVersions({"part3_1", "part2_2"}, {"svc_1"})
         /\ justHandled(r)
         /\ handled.out.tag = "text"
         /\ handled.out.text = << >>)
        => /\ state # "COMPLETED"
           /\ runs[r].pc = "done" => (state = "ERROR" /\ errorMessage # NoMsg)

\* Tokens "{" minus tokens "}" among the first k tokens of a value.
depthAfter(a, k) ==
    Cardinality({i \in 1..k : a[i] = "{"}) - Cardinality({i \in 1..k : a[i] = "}"})

\* The value is an object that has members of its own: the members of a
\* validated AnalysisResult (score, summary, posture, telemetry, maneuvers,
\* drills) are members of the outermost object.
hasRequiredFields(a) ==
    /\ Len(a) >= 3
    /\ a[1] = "{"
    /\ \E i \in 2..Len(a) : a[i] = "m" /\ depthAfter(a, i) = 1

\* C12: in the first part_003 and the third part_002, the state is
\* COMPLETED only with a result that has the required fields.
C12_CompletedOnlyWithValidResult ==
    (inVersions({"part3_1", "part2_3"}, {}) /\ state = "COMPLETED")
    => hasRequiredFields(analysis)

\* C13: frame index i (0 <= i < N) is taken at D/(N+1)*(i+1) seconds; a
\* video of 11 s sampled with N = 10 gives the timestamps 1, 2, ..., 10 s.
C13_TimestampPolicy ==
    LET N == sampler.frameCount
        D == sampler.duration
    IN  /\ \A k \in 1..Len(sampler.frames) :
              /\ k <= N
              /\ sampler.frames[k].num * (N + 1) = D * k * sampler.frames[k].den
              /\ (D = 11 /\ N = 10) => sampler.frames[k] = [num |-> k, den |-> 1]
        /\ sampler.pc = "seeking" =>
              /\ sampler.i = Len(sampler.frames)
              /\ sampler.time.num * (N + 1) = D * (sampler.i + 1) * sampler.time.den

C13_Witness ==
    /\ sampler.duration = 11
    /\ sampler.frameCount = 10
    /\ sampler.promise = "resolved"
    /\ sampler.value = [k \in 1..10 |-> [num |-> k, den |-> 1]]

\* C14: the timestamps of the frames taken are strictly increasing and lie
\* strictly between 0 and the duration of the video.
C14_TimestampsInsideAndIncreasing ==
    LET f == sampler.frames
        D == sampler.duration
    IN  /\ \A k \in 1..Len(f) :
              /\ f[k].den > 0
              /\ f[k].num > 0
              /\ f[k].num < D * f[k].den
        /\ \A k \in 1..(Len(f) - 1) :
              f[k].num * f[k + 1].den < f[k + 1].num * f[k].den

C14_Witness ==
    /\ sampler.frameCount = 16
    /\ sampler.duration = 1
    /\ Len(sampler.frames) = 16
    /\ sampler.promise = "resolved"

\* C15: what extractFrames delivers is the whole sequence of frameCount
\* frames in the order of their timestamps; a call that rejects, by its
\* timer or its catch block, delivers nothing, however many frames the loop
\* has taken or goes on to take.
C15_AllFramesOrFailure ==
    /\ sampler.promise = "resolved"
          => /\ Len(sampler.value) = sampler.frameCount
             /\ sampler.value = sampler.frames
             /\ \A k \in 1..(Len(sampler.value) - 1) :
                   fracLess(sampler.value[k], sampler.value[k + 1])
    /\ sampler.promise # "resolved" => sampler.value = << >>

C15_Witness ==
    /\ sampler.timeout = "fired"
    /\ sampler.reason = "sampling_timeout"
    /\ sampler.pc = "returned"
    /\ sampler.frameCount >= 2
    /\ Len(sampler.frames) = sampler.frameCount
    /\ sampler.promise = "rejected"

\* C16: in the third App.tsx and the second part_003, a call of
\* extractFrames that is pending is settled in the end, with the frames or
\* with a failure, also when the metadata or a 'seeked' event never comes.
C16_SamplingSettles ==
    (inVersions({"App_3", "part3_2"}, {}) /\ sampler.promise = "pending")
    ~> (sampler.promise \in {"resolved", "rejected"})

\* C17: in the first and second part_003 and the third App.tsx, the object
\* URL made by extractFrames is revoked by the time the call settles, on
\* every path.
C17_HandleReleasedOnEveryPath ==
    (/\ inVersions({"part3_1", "part3_2", "App_3"}, {})
     /\ sampler.promise \in {"resolved", "rejected"})
    => sampler.url = "revoked"

\* C18: when extractFrames fails, no model call is made for that run, with
\* no payload at all, and the run is over with a message shown; every
\* handleFileUpload ends in ERROR (runAnalysis of the third part_002 shows
\* its message in IDLE).
C18_SamplingFailureAbortsRun ==
    \A r \in RunIds :
        runs[r].sampling # ""
        => /\ runs[r].calls = 0
           /\ runs[r].payloads = << >>
           /\ runs[r].pc = "done"
           /\ errorMessage # NoMsg
           /\ variant # "part2_3" => state = "ERROR"

C18_Witness ==
    /\ variant \in {"App_2", "part3_2"}
    /\ runs[1].sampling = "sampling_timeout"
    /\ runs[1].pc = "done"
    /\ state = "ERROR"

\* C19: every request carries one payload, the frames or the video, never
\* none; in the third App.tsx it is the frames for a file of more than
\* 10 MiB and the video for any other file, one of exactly 10 MiB included.
C19_ExactlyOnePayload ==
    \A r \in RunIds :
        /\ Len(runs[r].payloads) = runs[r].calls
        /\ \A k \in 1..Len(runs[r].payloads) :
              /\ runs[r].payloads[k] \in {"frames", "video"}
              /\ variant = "App_3" =>
                    (runs[r].payloads[k] = "frames") = (runs[r].size > 10 * 1024 * 1024)

C19_Witness ==
    /\ variant = "App_3"
    /\ runs[1].size = 10 * 1024 * 1024
    /\ runs[1].payloads = <<"video">>
    /\ runs[1].pc = "done"
    /\ runs[2].size = 10 * 1024 * 1024 + 1
    /\ runs[2].payloads = <<"frames">>

\* A run that is still at work although the UI has left it: the state is
\* back to IDLE or a later upload has begun.  In the versions below only
\* reset brings that about.
abandoned(r) ==
    /\ runs[r].pc \in {"reading", "sampling", "calling"}
    /\ \/ state = "IDLE"
       \/ \E q \in RunIds : q > r /\ runs[q].pc # "none"

\* C20: in the second App.tsx, part_000 and the second part_003, a step of
\* an abandoned run changes neither the state nor the result nor the error
\* message.
C20_AbandonedRunIsSilent ==
    [][\A r \in RunIds :
          (/\ inVersions({"App_2", "part0", "part3_2"}, {})
           /\ abandoned(r)
           /\ runs'[r] # runs[r])
          => /\ state' = state
             /\ analysis' = analysis
             /\ errorMessage' = errorMessage]_vars

\* A run whose file read, sampling or model call has started and has not
\* yet delivered its outcome.
inFlight(r) ==
    runs[r].pc \in {"reading", "metadata", "sampling", "calling"}

\* C21: in the first App.tsx and in part_001, at most one analysis run is in
\* flight at any time.
C21_SingleFlight ==
    inVersions({"App_1", "part1"}, {})
    => \A r, q \in RunIds : inFlight(r) /\ inFlight(q) => r = q

\* The edges of the state machine of one requested analysis; a retry keeps
\* the run in progress and a run may fail before it reaches the model.
AllowedEdges ==
    { <<"IDLE", "UPLOADING">>, <<"UPLOADING", "ANALYZING">>,
      <<"ANALYZING", "UPLOADING">>, <<"UPLOADING", "ERROR">>,
      <<"ANALYZING", "COMPLETED">>, <<"ANALYZING", "ERROR">> }

\* C22: in part_000 and the third part_002, every step of a run either
\* leaves the state alone or moves it along IDLE -> UPLOADING -> ANALYZING
\* -> {COMPLETED | ERROR}; only the user's reset, which is no step of a run,
\* returns to IDLE.
C22_StateMachineOrder ==
    [][(/\ inVersions({"part0", "part2_3"}, {})
        /\ runs' # runs
        /\ state' # state)
       => <<state, state'>> \in AllowedEdges]_vars

\* C23: in the first App.tsx and the first part_002, a step that ends the
\* file read of a run without starting its analysis sets the state ERROR and
\* an error message.
C23_NoFailureSwallowed ==
    [][\A r \in RunIds :
          (/\ inVersions({"App_1", "part2_1"}, {})
           /\ runs[r].pc = "reading"
           /\ runs'[r].pc \in {"done", "unread"})
          => /\ state' = "ERROR"
             /\ errorMessage' # NoMsg]_vars

\* C24: in the second part_003 and with the first geminiService.ts, a model
\* call that was made is over in the end, with a result or with a failure,
\* also when the model never answers.
C24_RequestDeadline ==
    (inVersions({"part3_2"}, {"svc_1"}) /\ runs[1].pc = "calling")
    ~> (runs[1].pc # "calling")

\* C25: every model call, a retry included, is made with a client built
\* from the key that process.env.API_KEY holds when the call is made.
C25_FreshCredentialEachCall ==
    [][\A r \in RunIds :
          runs'[r].calls = runs[r].calls + 1
          => runs'[r].keys = Append(runs[r].keys, keyVersion)]_vars

\* The key was rotated between the first call of a run and its retry, and
\* the retry used the new key.
C25_Witness ==
    \E r \in RunIds :
        /\ runs[r].calls = 2
        /\ runs[r].retryCount = 1
        /\ runs[r].keys[1] < runs[r].keys[2]
        /\ runs[r].keys[2] = keyVersion

\* C26: in the first App.tsx and the third part_003, whenever the state is
\* COMPLETED there is a result and there is a video URL.
C26_CompletedHasResultAndVideo ==
    (inVersions({"App_1", "part3_3"}, {}) /\ state = "COMPLETED")
    => (analysis # Null /\ videoUrl # 0)

\* C27: in the second part_003, the second App.tsx and the third part_002,
\* reset from any state leaves the complete initial state: IDLE, no result,
\* no video URL, no error message, isOptimizing false.
C27_ResetRestoresInitialState ==
    [][(inVersions({"part3_2", "App_2", "part2_3"}, {}) /\ reset)
       => /\ state' = "IDLE"
          /\ analysis' = Null
          /\ videoUrl' = 0
          /\ errorMessage' = NoMsg
          /\ isOptimizing' = FALSE]_vars

\* C28: in part_000, while a call of the run is pending, the retry
\* included, the state is ANALYZING and no error message is set; the state
\* is ERROR after a model call only when the retry has failed too.
C28_NoErrorWhileRetryPending ==
    variant = "part0"
    => /\ runs[1].pc = "calling"
          => (state = "ANALYZING" /\ errorMessage = NoMsg)
       /\ (state = "ERROR" /\ runs[1].calls > 0)
          => (runs[1].retryCount = 1 /\ runs[1].calls = 2 /\ runs[1].pc = "done")

\* The first call of part_000 has failed and its retry is pending.
C28_Witness ==
    /\ variant = "part0"
    /\ runs[1].pc = "calling"
    /\ runs[1].retryCount = 1
    /\ Len(runs[1].fails) = 1
    /\ state = "ANALYZING"

\* C29: once the promise of extractFrames is settled, no later step changes
\* its outcome, the frames it delivered or the reason of its failure, and
\* when it is resolved its timer is no longer armed.
C29_SamplingSettledOnce ==
    [][/\ sampler.promise \in {"resolved", "rejected"}
          => /\ sampler'.promise = sampler.promise
             /\ sampler'.value = sampler.value
             /\ sampler'.reason = sampler.reason
       /\ sampler'.promise = "resolved" => sampler'.timeout # "armed"]_vars

\* The timer has rejected the promise and the loop has then run to its end
\* with all its frames: none of them was delivered.
C29_Witness ==
    /\ sampler.promise = "rejected"
    /\ sampler.reason = "sampling_timeout"
    /\ sampler.pc = "returned"
    /\ sampler.frameCount > 0
    /\ Len(sampler.frames) = sampler.frameCount
    /\ sampler.value = << >>

\* C30: with the first and second geminiService.ts and with part_005, when
\* process.env.API_KEY is not set no generateContent call is made.
C30_NoCallWithoutKey ==
    (inVersions({}, {"svc_1", "svc_2", "part5"}) /\ ~apiKey)
    => \A r \in RunIds : runs[r].calls = 0

====
